---- MODULE Spec2Model ----
(***************************************************************************)
(* Model of http-reloaded (src/src/main.rs): a static file server whose    *)
(* accept loop handles one connection at a time on the main thread, and a  *)
(* debounced file watcher whose callback, on its own thread, pushes        *)
(* `data: update` frames to the subscriber streams kept in a Mutex<Vec>.   *)
(*                                                                         *)
(* Text (request lines, paths, response bytes) is a sequence of tokens;    *)
(* a token stands for a run of bytes that the code never splits.           *)
(***************************************************************************)
EXTENDS Integers, Sequences, FiniteSets, TLC

\* ------------------------------------------------------------------ bounds
MaxConns == 2
MaxBroadcasts == 2

\* --------------------------------------------------------------- constants
VERY_LONG_PATH ==
    <<"very-long-path-name-intentionally-used-to-get-update-notifications-please-do-not-name-your-files-like-this", ".", "rs">>

UPDATE_NOTIFY_SCRIPT == <<"<script>", "new EventSource(VERY_LONG_PATH).onmessage = reload", "</script>">>

CRLF == "\r\n"

SSE_HEADER ==
    <<"HTTP/1.1 ", "200 OK", CRLF,
      "Content-Type: ", "text/event-stream", CRLF,
      "Cache-Control: no-cache", CRLF, CRLF>>

DATA_INITIAL == "data: initial\n\n"

DATA_UPDATE == "data: update\n\n"

\* The absent value of an Option<&str>.
None == "None"

\* ------------------------------------------------------- sequence helpers
RECURSIVE TrimStartMatches(_, _)
TrimStartMatches(s, tok) ==
    IF Len(s) > 0 /\ Head(s) = tok THEN TrimStartMatches(Tail(s), tok) ELSE s

RECURSIVE TrimEndMatches(_, _)
TrimEndMatches(s, tok) ==
    IF Len(s) > 0 /\ s[Len(s)] = tok
    THEN TrimEndMatches(SubSeq(s, 1, Len(s) - 1), tok)
    ELSE s

Whitespace == {" ", "\t"}

RECURSIVE TrimStartWs(_)
TrimStartWs(s) ==
    IF Len(s) > 0 /\ Head(s) \in Whitespace THEN TrimStartWs(Tail(s)) ELSE s

RECURSIVE TrimEndWs(_)
TrimEndWs(s) ==
    IF Len(s) > 0 /\ s[Len(s)] \in Whitespace
    THEN TrimEndWs(SubSeq(s, 1, Len(s) - 1))
    ELSE s

Trim(s) == TrimEndWs(TrimStartWs(s))

\* request.trim_start_matches("GET").trim_end_matches("HTTP/1.1").trim()
\*        .trim_start_matches("/")
ParsePath(request) ==
    TrimStartMatches(Trim(TrimEndMatches(TrimStartMatches(request, "GET"), "HTTP/1.1")), "/")

\* Split a path string at "/" into its components (each a token sequence).
RECURSIVE SplitPath(_, _, _)
SplitPath(s, cur, acc) ==
    IF Len(s) = 0 THEN Append(acc, cur)
    ELSE IF Head(s) = "/" THEN SplitPath(Tail(s), <<>>, Append(acc, cur))
    ELSE SplitPath(Tail(s), Append(cur, Head(s)), acc)

Components(s) == SplitPath(s, <<>>, <<>>)

\* PathBuf::join for a relative right-hand side: base, separator, rhs.
Join(base, rel) == base \o <<"/">> \o rel

IndexHtml == <<"index", ".", "html">>

\* ------------------------------------------------------------ file system
\* A file is named by its absolute component list.  The served root is the
\* directory /srv; /secret lies outside it.
RootDir == <<"srv">>

RootComps == <<RootDir>>

FileCss == <<RootDir, <<"a", ".", "css">>>>

FileIndex == <<RootDir, <<"d">>, IndexHtml>>

FileSentinel == <<RootDir, VERY_LONG_PATH>>

FileOutside == <<<<"secret">>>>

Files == {FileCss, FileIndex, FileSentinel, FileOutside}

FileContent(f) ==
    CASE f = FileCss      -> <<"body{", "}">>
      [] f = FileIndex    -> <<"<p>", "hello", "</p>", CRLF>>
      [] f = FileSentinel -> <<"fn main(){}">>
      [] OTHER            -> <<"top", "secret", "data", "bytes", "!">>

IsPrefix(p, q) == Len(p) <= Len(q) /\ SubSeq(q, 1, Len(p)) = p

\* d is a directory when it is the served root or some readable file lies
\* strictly below it.
IsDir(d, files) ==
    \/ d = RootComps
    \/ \E f \in files : Len(d) < Len(f) /\ IsPrefix(d, f)

\* Kernel path walk: "" and "." stay, ".." goes up, a name descends; every
\* intermediate position must be a directory.  Result: the component list
\* reached, or <<"ENOENT">> wrapped so that it equals no file.
NoFile == <<<<"ENOENT">>, <<"ENOENT">>, <<"ENOENT">>, <<"ENOENT">>, <<"ENOENT">>>>

RECURSIVE Walk(_, _, _)
Walk(comps, at, files) ==
    IF Len(comps) = 0 THEN at
    ELSE IF ~(Len(at) = 0 \/ IsDir(at, files)) THEN NoFile
    ELSE LET c == Head(comps) IN
         IF c = <<>> \/ c = <<".">> THEN Walk(Tail(comps), at, files)
         ELSE IF c = <<".", ".">>
              THEN Walk(Tail(comps),
                        IF Len(at) = 0 THEN at ELSE SubSeq(at, 1, Len(at) - 1),
                        files)
         ELSE Walk(Tail(comps), Append(at, c), files)

\* fs::read(p).ok(): the file p designates, when it is a readable file.
RootPath == <<"/", "srv">>

ReadTarget(p, files) == Walk(Components(p), <<>>, files)

CanRead(p, files) == ReadTarget(p, files) \in files

\* ------------------------------------------------------------ MIME table
\* The match of get_mime_type on the extension string.
MimeTable(ext) ==
    CASE ext = "aac" -> "audio/aac"
      [] ext = "abw" -> "application/x-abiword"
      [] ext = "apng" -> "image/apng"
      [] ext = "arc" -> "application/x-freearc"
      [] ext = "avif" -> "image/avif"
      [] ext = "avi" -> "video/x-msvideo"
      [] ext = "azw" -> "application/vnd.amazon.ebook"
      [] ext = "bin" -> "application/octet-stream"
      [] ext = "bmp" -> "image/bmp"
      [] ext = "bz" -> "application/x-bzip"
      [] ext = "bz2" -> "application/x-bzip2"
      [] ext = "cda" -> "application/x-cdf"
      [] ext = "csh" -> "application/x-csh"
      [] ext = "css" -> "text/css"
      [] ext = "csv" -> "text/csv"
      [] ext = "doc" -> "application/msword"
      [] ext = "docx" -> "application/vnd.openxmlformats-officedocument.wordprocessingml.document"
      [] ext = "eot" -> "application/vnd.ms-fontobject"
      [] ext = "epub" -> "application/epub+zip"
      [] ext = "gz" -> "application/gzip"
      [] ext = "gif" -> "application/gif"
      [] ext = "htm" \/ ext = "html" -> "text/html"
      [] ext = "ico" -> "image/vnd.microsoft.icon"
      [] ext = "ics" -> "text/calendar"
      [] ext = "jar" -> "application/java-archive"
      [] ext = "jpeg" \/ ext = "jpg" -> "image/jpeg"
      [] ext = "js" -> "text/javascript"
      [] ext = "json" -> "application/json"
      [] ext = "jsonld" -> "application/ld+json"
      [] ext = "mid" \/ ext = "midi" -> "audio/midi"
      [] ext = "mjs" -> "text/javascript"
      [] ext = "mp3" -> "audio/mpeg"
      [] ext = "mp4" -> "video/mpeg"
      [] ext = "mpeg" -> "video/mpeg"
      [] ext = "mpkg" -> "application/vnd.apple.installer+xml"
      [] ext = "odp" -> "application/vnd.oasis.opendocument.presentation"
      [] ext = "ods" -> "application/vnd.oasis.opendocument.spreadsheet"
      [] ext = "odt" -> "application/vnd.oasis.opendocument.text"
      [] ext = "oga" -> "audio/ogg"
      [] ext = "ogv" -> "video/ogg"
      [] ext = "ogx" -> "application/ogg"
      [] ext = "opus" -> "audio/opus"
      [] ext = "otf" -> "font/otf"
      [] ext = "png" -> "image/png"
      [] ext = "pdf" -> "application/pdf"
      [] ext = "php" -> "application/x-httpd-php"
      [] ext = "ppt" -> "application/vnd.ms-powerpoint"
      [] ext = "pptx" -> "application/vnd/openxmlformats-officedocument.presentationml.presentation"
      [] ext = "rar" -> "application/vnd.rar"
      [] ext = "rtf" -> "application/rtf"
      [] ext = "sh" -> "application/x-sh"
      [] ext = "svg" -> "image/svg+xml"
      [] ext = "tar" -> "application/x-tar"
      [] ext = "tif" \/ ext = "tiff" -> "image/tiff"
      [] ext = "ts" -> "video/mp2t"
      [] ext = "ttf" -> "font/ttf"
      [] ext = "txt" -> "text/plain"
      [] ext = "vsd" -> "application/vnd.visio"
      [] ext = "wav" -> "audio/wav"
      [] ext = "weba" -> "audio/webm"
      [] ext = "webm" -> "video/webm"
      [] ext = "webp" -> "image/webp"
      [] ext = "woff" -> "font/woff"
      [] ext = "woff2" -> "font/woff2"
      [] ext = "xhtml" -> "application/xhtml+xml"
      [] ext = "xls" -> "application/vnd.ms-exel"
      [] ext = "xlsx" -> "application/vnd.openxmlformats-officedocument.spreadsheetml.sheet"
      [] ext = "xml" -> "application/xml"
      [] ext = "xul" -> "application/vnd.mozilla.xul+xml"
      [] ext = "zip" -> "application/zip"
      [] ext = "3pg" -> "video/3gpp"
      [] ext = "3g2" -> "video/3ggp2"
      [] ext = "7z" -> "application/x-7z-compressed"
      [] ext = "wasm" -> "application/wasm"
      [] OTHER -> None

RECURSIVE LastIndexOf(_, _)
LastIndexOf(s, tok) ==
    IF Len(s) = 0 THEN 0
    ELSE IF s[Len(s)] = tok THEN Len(s)
    ELSE LastIndexOf(SubSeq(s, 1, Len(s) - 1), tok)

\* Path::components drops empty and "." components; file_name is the last
\* component left unless it is "..".
RECURSIVE DropTrailingDots(_)
DropTrailingDots(comps) ==
    IF Len(comps) > 0 /\ (comps[Len(comps)] = <<>> \/ comps[Len(comps)] = <<".">>)
    THEN DropTrailingDots(SubSeq(comps, 1, Len(comps) - 1))
    ELSE comps

FileName(p) ==
    LET comps == DropTrailingDots(Components(p)) IN
    IF Len(comps) = 0 \/ comps[Len(comps)] = <<".", ".">> THEN <<>>
    ELSE comps[Len(comps)]

\* Path::extension: the part after the last "." of the file name, absent
\* when there is no "." or the only "." starts the name.
Extension(p) ==
    LET name == FileName(p)
        dot  == LastIndexOf(name, ".") IN
    IF dot <= 1 THEN <<None>> ELSE SubSeq(name, dot + 1, Len(name))

\* A lookup that falls back to a default type.
get_mime_type_or_default(p) ==
    LET ext == Extension(p) IN
    IF Len(ext) = 1 /\ ext[1] # None /\ MimeTable(ext[1]) # None
    THEN MimeTable(ext[1]) ELSE "application/octet-stream"

get_mime_type(p) ==
    LET ext == Extension(p) IN
    IF Len(ext) = 1 /\ ext[1] # None THEN MimeTable(ext[1]) ELSE None

TEXT_HTML == "text/html"

\* ------------------------------------------------------- response assembly
\* Decimal formatting of {length} in format!.
Digit(d) ==
    CASE d = 0 -> "0" [] d = 1 -> "1" [] d = 2 -> "2" [] d = 3 -> "3"
      [] d = 4 -> "4" [] d = 5 -> "5" [] d = 6 -> "6" [] d = 7 -> "7"
      [] d = 8 -> "8" [] OTHER -> "9"

RECURSIVE FormatInt(_)
FormatInt(n) ==
    IF n < 10 THEN <<Digit(n)>> ELSE Append(FormatInt(n \div 10), Digit(n % 10))

STATUS_OK == "200 OK"

STATUS_NOT_FOUND == "404 NOT FOUND"

\* A 404 page that does not name the path.
NotFoundBodyNoPath(file_path) ==
    <<"<!DOCTYPE html><h1>404: Not found</h1><p>page ">> \o <<" not found</p>">>

NotFoundBody(file_path) ==
    <<"<!DOCTYPE html><h1>404: Not found</h1><p>page ">> \o file_path \o <<" not found</p>">>

\* The chain with the sentinel compared against the path before its leading
\* "/" was trimmed: the subscription branch is never taken.
ResolveSentinelWithSlash(file_path, files) ==
    LET p1 == Join(RootPath, file_path)
        p2 == Join(p1, IndexHtml) IN
    IF CanRead(p1, files)
    THEN [branch |-> "normal", content |-> FileContent(ReadTarget(p1, files)),
          status |-> STATUS_OK, mime_type |-> get_mime_type(file_path)]
    ELSE IF CanRead(p2, files)
    THEN [branch |-> "normal", content |-> FileContent(ReadTarget(p2, files)),
          status |-> STATUS_OK, mime_type |-> TEXT_HTML]
    ELSE IF file_path = <<"/">> \o VERY_LONG_PATH
    THEN [branch |-> "subscribe", content |-> <<>>,
          status |-> STATUS_OK, mime_type |-> None]
    ELSE [branch |-> "normal", content |-> NotFoundBody(file_path),
          status |-> STATUS_NOT_FOUND, mime_type |-> TEXT_HTML]

\* The chain with the sentinel test moved in front of the file reads.
ResolveSentinelFirst(file_path, files) ==
    LET p1 == Join(RootPath, file_path)
        p2 == Join(p1, IndexHtml) IN
    IF file_path = VERY_LONG_PATH
    THEN [branch |-> "subscribe", content |-> <<>>,
          status |-> STATUS_OK, mime_type |-> None]
    ELSE IF CanRead(p1, files)
    THEN [branch |-> "normal", content |-> FileContent(ReadTarget(p1, files)),
          status |-> STATUS_OK, mime_type |-> get_mime_type(file_path)]
    ELSE IF CanRead(p2, files)
    THEN [branch |-> "normal", content |-> FileContent(ReadTarget(p2, files)),
          status |-> STATUS_OK, mime_type |-> TEXT_HTML]
    ELSE [branch |-> "normal", content |-> NotFoundBody(file_path),
          status |-> STATUS_NOT_FOUND, mime_type |-> TEXT_HTML]

\* The if / else-if chain of handle_connection that picks what to answer.
Resolve(file_path, files) ==
    LET p1 == Join(RootPath, file_path)
        p2 == Join(p1, IndexHtml) IN
    IF CanRead(p1, files)
    THEN [branch |-> "normal", content |-> FileContent(ReadTarget(p1, files)),
          status |-> STATUS_OK, mime_type |-> get_mime_type(file_path)]
    ELSE IF CanRead(p2, files)
    THEN [branch |-> "normal", content |-> FileContent(ReadTarget(p2, files)),
          status |-> STATUS_OK, mime_type |-> TEXT_HTML]
    ELSE IF file_path = VERY_LONG_PATH
    THEN [branch |-> "subscribe", content |-> <<>>,
          status |-> STATUS_OK, mime_type |-> None]
    ELSE [branch |-> "normal", content |-> NotFoundBody(file_path),
          status |-> STATUS_NOT_FOUND, mime_type |-> TEXT_HTML]

\* let update_notify = if mime_type == Some("text/html") { SCRIPT } else { "" }
UpdateNotifyFor(mime_type) ==
    IF mime_type = TEXT_HTML THEN UPDATE_NOTIFY_SCRIPT ELSE <<>>

ContentLength(content, mime_type) == Len(content) + Len(UpdateNotifyFor(mime_type))

ResponseHeader(status, length, mime_type) ==
    <<"HTTP/1.1 ", status, CRLF, "Content-Length: ">> \o FormatInt(length)
      \o <<CRLF, "Cache-Control: no-cache", CRLF>>
      \o (IF mime_type # None THEN <<"Content-Type: ", mime_type, CRLF>> ELSE <<>>)
      \o <<CRLF>>

\* The bytes the third write_all of the normal branch sends.
TrailerWritten(mime_type) == UPDATE_NOTIFY_SCRIPT

\* The three write_all calls of the normal branch, in order.
ResponseWrites(r) ==
    <<ResponseHeader(r.status, ContentLength(r.content, r.mime_type), r.mime_type),
      r.content,
      TrailerWritten(r.mime_type)>>

\* The subscription branch with the initial frame written before the header.
SubscribeWritesInitialFirst == <<<<DATA_INITIAL>>, SSE_HEADER>>

\* The two write_all calls of the subscription branch, in order.
SubscribeWrites == <<SSE_HEADER, <<DATA_INITIAL>>>>

RECURSIVE Flatten(_, _)
Flatten(writes, n) ==
    IF n = 0 THEN <<>> ELSE Flatten(writes, n - 1) \o writes[n]

\* ----------------------------------------------------------------- inputs
ReqLine(path) == <<"GET", " ">> \o path \o <<" ", "HTTP/1.1">>

ReqCss == ReqLine(<<"/", "a", ".", "css">>)

ReqDir == ReqLine(<<"/", "d">>)

ReqSubscribe == ReqLine(<<"/">> \o VERY_LONG_PATH)

ReqMissing == ReqLine(<<"/", "nope", ".", "txt">>)

ReqTraversal == ReqLine(<<"/", ".", ".", "/", "secret">>)

RequestLines == {ReqCss, ReqDir, ReqSubscribe, ReqMissing, ReqTraversal}

NoRequest == <<"<none>">>

ReadError == <<"<read error>">>

\* The files that come and go while the server runs.
ChangingFiles == {FileIndex, FileSentinel}

Conns == 1..MaxConns

LOG_RELOAD == "Files changed, reloading"

LOG_WATCH_ERR == "[ERR] While watching files: "

LOG_REQUEST_ERR == "[ERR] While responding to request: "

LOG_LISTENING == "listening on "

\* ------------------------------------------------------------------ state
VARIABLES
    fs,             \* the readable files
    pending,        \* the debouncer holds events not yet handed to the callback
    update_notify,  \* Mutex<Vec<TcpStream>>: the subscriber streams, in order
    lock,           \* holder of the mutex: "free", "handler" or "watcher"
    mpc,            \* main thread: "accept", "handle", "lock", "push", "ret",
                    \* "end", "exited", "panicked"
    cur,            \* the stream handle_connection was called with
    nconn,          \* connections accepted so far
    sock,           \* per connection: "none", "open", "stalled", "halfclosed",
                    \* "closed", "dropped"
    out,            \* per connection: the bytes written to it while it lives
    request,        \* the request line the running handler read
    result,         \* what the running handler returns: "none", "ok", "err"
    log,            \* the last line printed
    wpc,            \* watcher thread: "idle", "lock", "retain", "panicked"
    bi,             \* retain_mut: index of the next element to visit
    snap,           \* the Vec as it was when the callback took the lock
    base,           \* per connection: update frames received when the lock was taken
    poisoned,       \* the mutex is poisoned: a thread panicked holding its guard
    werr            \* live connections on which a write was seen to fail

vars == <<fs, pending, update_notify, lock, mpc, cur, nconn, sock, out, request,
          result, log, wpc, bi, snap, base, poisoned, werr>>

mainVars == <<mpc, cur, nconn, request, result>>

watchVars == <<wpc, bi, snap, base, poisoned>>

RECURSIVE CountTok(_, _)
CountTok(s, tok) ==
    IF Len(s) = 0 THEN 0
    ELSE (IF Head(s) = tok THEN 1 ELSE 0) + CountTok(Tail(s), tok)

Updates(c) == CountTok(out[c], DATA_UPDATE)

\* A removal that takes the rest of the Vec with it.
RemoveFrom(s, i) == SubSeq(s, 1, i - 1)

RemoveAt(s, i) == SubSeq(s, 1, i - 1) \o SubSeq(s, i + 1, Len(s))

Range(s) == {s[i] : i \in 1..Len(s)}

Init ==
    /\ fs = {FileCss, FileIndex, FileOutside}
    /\ pending = FALSE
    /\ update_notify = <<>>
    /\ lock = "free"
    /\ mpc = "accept"
    /\ cur = 0
    /\ nconn = 0
    /\ sock = [c \in Conns |-> "none"]
    /\ out = [c \in Conns |-> <<>>]
    /\ request = NoRequest
    /\ result = "none"
    /\ log = LOG_LISTENING
    /\ wpc = "idle"
    /\ bi = 0
    /\ snap = <<>>
    /\ base = [c \in Conns |-> 0]
    /\ poisoned = FALSE
    /\ werr = {}

\* ------------------------------------------------------------ environment
\* A file under the watched root appears or disappears.
FsChange(f) ==
    /\ f \in ChangingFiles
    /\ fs' = (fs \ {f}) \cup ({f} \ fs)
    /\ pending' = (mpc # "exited")
    /\ UNCHANGED <<update_notify, lock, sock, out, log, werr>>
    /\ UNCHANGED mainVars
    /\ UNCHANGED watchVars

\* The client resets its end, or its reset reaches the server: later writes
\* fail.
PeerClose(c) ==
    /\ sock[c] \in {"open", "stalled", "halfclosed"}
    /\ sock' = [sock EXCEPT ![c] = "closed"]
    /\ UNCHANGED <<fs, pending, update_notify, lock, out, log, werr>>
    /\ UNCHANGED mainVars
    /\ UNCHANGED watchVars

\* A subscriber's client stops reading and the send buffer is full: writes
\* to it block.
PeerStall(c) ==
    /\ sock[c] = "open"
    /\ c \in Range(update_notify)
    /\ sock' = [sock EXCEPT ![c] = "stalled"]
    /\ UNCHANGED <<fs, pending, update_notify, lock, out, log, werr>>
    /\ UNCHANGED mainVars
    /\ UNCHANGED watchVars

\* A subscriber's client closes its end in an orderly way (FIN): the server's
\* next write still succeeds, and is answered by a reset.
PeerHalfClose(c) ==
    /\ sock[c] = "open"
    /\ c \in Range(update_notify)
    /\ sock' = [sock EXCEPT ![c] = "halfclosed"]
    /\ UNCHANGED <<fs, pending, update_notify, lock, out, log, werr>>
    /\ UNCHANGED mainVars
    /\ UNCHANGED watchVars

\* The client reads again: blocked writes go through.
PeerResume(c) ==
    /\ sock[c] = "stalled"
    /\ sock' = [sock EXCEPT ![c] = "open"]
    /\ UNCHANGED <<fs, pending, update_notify, lock, out, log, werr>>
    /\ UNCHANGED mainVars
    /\ UNCHANGED watchVars

\* ------------------------------------------------------------ main thread
\* listener.incoming() yields a connection; handle_connection is called.
Accept ==
    /\ mpc = "accept"
    /\ nconn < MaxConns
    /\ nconn' = nconn + 1
    /\ cur' = nconn + 1
    /\ sock' = [sock EXCEPT ![nconn + 1] = "open"]
    /\ mpc' = "handle"
    /\ UNCHANGED <<fs, pending, update_notify, lock, out, request, result, log, werr>>
    /\ UNCHANGED watchVars

\* listener.incoming() yields Err: `stream?` returns it from serve, serve's
\* locals (the debouncer and with it the watcher thread, the Vec and its
\* streams) are dropped, and main returns.
AcceptErr ==
    /\ mpc = "accept"
    /\ mpc' = "exited"
    /\ update_notify' = <<>>
    /\ sock' = [c \in Conns |-> IF sock[c] = "none" THEN "none" ELSE "dropped"]
    /\ out' = [c \in Conns |-> <<>>]
    /\ werr' = {}
    /\ lock' = "free"
    /\ pending' = FALSE
    /\ wpc' = "idle"
    /\ bi' = 0
    /\ snap' = <<>>
    /\ base' = [c \in Conns |-> 0]
    /\ UNCHANGED <<fs, cur, nconn, request, result, log, poisoned>>

\* reader.lines().next() fails: handle_connection returns Err.
HandleReadErr ==
    /\ mpc = "handle"
    /\ request' = ReadError
    /\ result' = "err"
    /\ mpc' = "end"
    /\ UNCHANGED <<fs, pending, update_notify, lock, cur, nconn, sock, out, log, werr>>
    /\ UNCHANGED watchVars

\* A write_all on an open socket succeeds; on a closed one it fails and
\* delivers nothing; on a stalled one it blocks.  The peer may close between
\* two writes, so any prefix of the writes may be what went through.
WriteOutcome(c, writes, n) ==
    /\ n \in 0..Len(writes)
    /\ sock[c] = "closed" => n = 0
    /\ out' = [out EXCEPT ![c] = @ \o Flatten(writes, n)]
    /\ sock' = [sock EXCEPT ![c] = IF n = Len(writes) THEN @ ELSE "closed"]
    /\ werr' = IF n = Len(writes) THEN werr ELSE werr \cup {c}

\* Lines 69-143 for a request that resolves to a normal response.
HandleNormal(line, n) ==
    LET file_path == ParsePath(line)
        r == Resolve(file_path, fs)
        writes == ResponseWrites(r) IN
    /\ mpc = "handle"
    /\ sock[cur] \in {"open", "closed"}
    /\ r.branch = "normal"
    /\ WriteOutcome(cur, writes, n)
    /\ request' = line
    /\ result' = IF n = Len(writes) THEN "ok" ELSE "err"
    /\ mpc' = "end"
    /\ UNCHANGED <<fs, pending, update_notify, lock, cur, nconn, log>>
    /\ UNCHANGED watchVars

\* A subscription branch that ignores the results of its writes.
HandleSubscribeIgnoringErrors(line, n) ==
    LET file_path == ParsePath(line)
        r == Resolve(file_path, fs) IN
    /\ mpc = "handle"
    /\ sock[cur] \in {"open", "closed"}
    /\ r.branch = "subscribe"
    /\ WriteOutcome(cur, SubscribeWrites, n)
    /\ request' = line
    /\ mpc' = "lock"
    /\ UNCHANGED <<fs, pending, update_notify, lock, cur, nconn, log, result>>
    /\ UNCHANGED watchVars

\* Lines 69-98 for the subscription request: set_nodelay, the header, the
\* initial frame, flush.  On Err the function returns before the insert.
HandleSubscribe(line, n) ==
    LET file_path == ParsePath(line)
        r == Resolve(file_path, fs) IN
    /\ mpc = "handle"
    /\ sock[cur] \in {"open", "closed"}
    /\ r.branch = "subscribe"
    /\ WriteOutcome(cur, SubscribeWrites, n)
    /\ request' = line
    /\ IF n = Len(SubscribeWrites)
       THEN mpc' = "lock" /\ UNCHANGED result
       ELSE mpc' = "end" /\ result' = "err"
    /\ UNCHANGED <<fs, pending, update_notify, lock, cur, nconn, log>>
    /\ UNCHANGED watchVars

\* A lock that excludes nobody.
CanLockAlways == TRUE

\* A lock that only a handler's guard keeps others from taking.
CanLockUnlessHandler == lock # "handler"

\* Mutex::lock: granted when nobody holds the mutex.
CanLock == lock = "free"

\* update_notify.lock().expect(RW_ERR)
HandlerLock ==
    /\ mpc = "lock"
    /\ CanLock
    /\ IF poisoned
       THEN mpc' = "panicked" /\ UNCHANGED lock
       ELSE mpc' = "push" /\ lock' = "handler"
    /\ UNCHANGED <<fs, pending, update_notify, cur, nconn, sock, out, request, result, log, werr>>
    /\ UNCHANGED watchVars

\* .push(stream); the guard is dropped at the end of the statement.
HandlerPush ==
    /\ mpc = "push"
    /\ update_notify' = Append(update_notify, cur)
    /\ lock' = "free"
    /\ result' = "ok"
    /\ mpc' = "ret"
    /\ UNCHANGED <<fs, pending, cur, nconn, sock, out, request, log, werr>>
    /\ UNCHANGED watchVars

\* return Ok(()) of the subscription branch: the stream now belongs to the
\* Vec, the loop goes on to the next connection.
HandlerReturn ==
    /\ mpc = "ret"
    /\ mpc' = "accept"
    /\ cur' = 0
    /\ request' = NoRequest
    /\ result' = "none"
    /\ UNCHANGED <<fs, pending, update_notify, lock, nconn, sock, out, log, werr>>
    /\ UNCHANGED watchVars

\* handle_connection returns with the stream still its own: the stream is
\* dropped (closed), and the loop prints an Err.
HandlerEnd ==
    /\ mpc = "end"
    /\ sock' = [sock EXCEPT ![cur] = "dropped"]
    /\ out' = [out EXCEPT ![cur] = <<>>]
    /\ werr' = werr \ {cur}
    /\ log' = IF result = "err" THEN LOG_REQUEST_ERR ELSE log
    /\ mpc' = "accept"
    /\ cur' = 0
    /\ request' = NoRequest
    /\ result' = "none"
    /\ UNCHANGED <<fs, pending, update_notify, lock, nconn>>
    /\ UNCHANGED watchVars

\* --------------------------------------------------------- watcher thread
\* The debouncer calls the closure with Ok(events).
CallbackOk ==
    /\ mpc # "exited"
    /\ wpc = "idle"
    /\ pending
    /\ \A c \in Range(update_notify) : Updates(c) < MaxBroadcasts
    /\ pending' = FALSE
    /\ log' = LOG_RELOAD
    /\ wpc' = "lock"
    /\ UNCHANGED <<fs, update_notify, lock, sock, out, werr, bi, snap, base, poisoned>>
    /\ UNCHANGED mainVars

\* A closure that prints the error and then notifies as for a change.
CallbackErrThenNotify ==
    /\ mpc # "exited"
    /\ wpc = "idle"
    /\ log' = LOG_WATCH_ERR
    /\ wpc' = "lock"
    /\ UNCHANGED <<fs, pending, update_notify, lock, sock, out, werr, bi, snap, base,
                   poisoned>>
    /\ UNCHANGED mainVars

\* The debouncer calls the closure with Err(e): it is printed.
CallbackErr ==
    /\ mpc # "exited"
    /\ wpc = "idle"
    /\ log' = LOG_WATCH_ERR
    /\ UNCHANGED <<fs, pending, update_notify, lock, sock, out, werr>>
    /\ UNCHANGED watchVars
    /\ UNCHANGED mainVars

\* update_notify_cloned.lock().expect(RW_ERR)
WatcherLock ==
    /\ wpc = "lock"
    /\ CanLock
    /\ IF poisoned
       THEN /\ wpc' = "panicked"
            /\ UNCHANGED <<lock, bi, snap, base>>
       ELSE /\ lock' = "watcher"
            /\ wpc' = "retain"
            /\ bi' = 1
            /\ snap' = update_notify
            /\ base' = [c \in Conns |-> Updates(c)]
    /\ UNCHANGED <<fs, pending, update_notify, sock, out, log, werr, poisoned>>
    /\ UNCHANGED mainVars

\* A closure that keeps the element whatever the write did.
RetainedAlways(ok) == TRUE

\* A closure that keeps no element.
RetainedNever(ok) == FALSE

\* What the retain_mut closure returns for a write result.
Retained(ok) == ok

\* A closure that unwraps the write result.
WriteErrPanicsAlways == TRUE

\* Whether the closure unwinds on a write error: it matches on the result
\* and returns false, so it does not.
WriteErrPanics == FALSE

\* One call of the retain_mut closure: write_all and flush on the element,
\* which stays when both succeed and is removed (and dropped) otherwise.
RetainStep ==
    /\ wpc = "retain"
    /\ bi <= Len(update_notify)
    /\ LET s == update_notify[bi]
           ok == sock[s] \in {"open", "halfclosed"} IN
       /\ sock[s] # "stalled"
       /\ IF ~ok /\ WriteErrPanics
          THEN /\ poisoned' = TRUE
               /\ lock' = "free"
               /\ wpc' = "panicked"
               /\ werr' = werr \cup {s}
               /\ UNCHANGED <<update_notify, sock, out, bi>>
          ELSE /\ IF Retained(ok)
                  THEN /\ bi' = bi + 1
                       /\ out' = IF ok THEN [out EXCEPT ![s] = Append(@, DATA_UPDATE)] ELSE out
                       /\ werr' = IF ok THEN werr ELSE werr \cup {s}
                       /\ sock' = [sock EXCEPT ![s] = IF @ = "halfclosed" THEN "closed" ELSE @]
                       /\ UNCHANGED update_notify
                  ELSE /\ update_notify' = RemoveAt(update_notify, bi)
                       /\ sock' = [sock EXCEPT ![s] = "dropped"]
                       /\ out' = [out EXCEPT ![s] = <<>>]
                       /\ werr' = werr \ {s}
                       /\ UNCHANGED bi
               /\ UNCHANGED <<lock, wpc, poisoned>>
    /\ UNCHANGED <<fs, pending, log, snap, base>>
    /\ UNCHANGED mainVars

\* retain_mut has visited every element: the guard is dropped.
WatcherUnlock ==
    /\ wpc = "retain"
    /\ bi > Len(update_notify)
    /\ lock' = "free"
    /\ wpc' = "idle"
    /\ bi' = 0
    /\ snap' = <<>>
    /\ base' = [c \in Conns |-> 0]
    /\ UNCHANGED <<fs, pending, update_notify, sock, out, log, werr, poisoned>>
    /\ UNCHANGED mainVars

Next ==
    \/ \E f \in ChangingFiles : FsChange(f)
    \/ \E c \in Conns : PeerClose(c)
    \/ \E c \in Conns : PeerStall(c)
    \/ \E c \in Conns : PeerHalfClose(c)
    \/ \E c \in Conns : PeerResume(c)
    \/ Accept
    \/ AcceptErr
    \/ HandleReadErr
    \/ \E line \in RequestLines, n \in 0..3 : HandleNormal(line, n)
    \/ \E line \in RequestLines, n \in 0..2 : HandleSubscribe(line, n)
    \/ HandlerLock
    \/ HandlerPush
    \/ HandlerReturn
    \/ HandlerEnd
    \/ CallbackOk
    \/ CallbackErr
    \/ WatcherLock
    \/ RetainStep
    \/ WatcherUnlock

Spec == Init /\ [][Next]_vars

\* The scheduler runs the watcher thread and the main thread, and a write
\* that can go through again and again does go through; nothing obliges a
\* client to read, close or send.
FairSpec ==
    /\ Spec
    /\ WF_vars(WatcherLock)
    /\ SF_vars(RetainStep)
    /\ WF_vars(WatcherUnlock)
    /\ WF_vars(HandlerLock)
    /\ WF_vars(HandlerPush)
    /\ WF_vars(HandlerReturn)
    /\ WF_vars(HandlerEnd)

\* ------------------------------------------------- reading a byte stream
\* What a client sees in the bytes of a connection.
RECURSIVE FindBlankLine(_, _)
FindBlankLine(o, i) ==
    IF i > Len(o) THEN 0
    ELSE IF o[i - 1] = CRLF /\ o[i] = CRLF THEN i
    ELSE FindBlankLine(o, i + 1)

\* Index of the CRLF that ends the header block, 0 when there is none.
HeaderEnd(o) == FindBlankLine(o, 2)

HasHeaders(o) == HeaderEnd(o) > 0

AfterHeaders(o) == SubSeq(o, HeaderEnd(o) + 1, Len(o))

RECURSIVE FindTok(_, _, _, _)
FindTok(o, tok, i, last) ==
    IF i > last THEN 0
    ELSE IF o[i] = tok THEN i
    ELSE FindTok(o, tok, i + 1, last)

RECURSIVE UpToCrlf(_, _)
UpToCrlf(o, i) ==
    IF i > Len(o) \/ o[i] = CRLF THEN <<>> ELSE <<o[i]>> \o UpToCrlf(o, i + 1)

\* The value of a header of the header block, <<>> when it is absent.
HeaderValue(o, name) ==
    LET j == FindTok(o, name, 1, HeaderEnd(o)) IN
    IF j = 0 THEN <<>> ELSE UpToCrlf(o, j + 1)

HasHeader(o, name) == FindTok(o, name, 1, HeaderEnd(o)) > 0

StatusOf(o) == IF Len(o) >= 2 /\ o[1] = "HTTP/1.1 " THEN o[2] ELSE None

DigitValue(t) ==
    CASE t = "0" -> 0 [] t = "1" -> 1 [] t = "2" -> 2 [] t = "3" -> 3
      [] t = "4" -> 4 [] t = "5" -> 5 [] t = "6" -> 6 [] t = "7" -> 7
      [] t = "8" -> 8 [] OTHER -> 9

RECURSIVE ParseInt(_)
ParseInt(ds) ==
    IF Len(ds) = 0 THEN 0
    ELSE 10 * ParseInt(SubSeq(ds, 1, Len(ds) - 1)) + DigitValue(ds[Len(ds)])

Contains(s, sub) ==
    \E i \in 1..(Len(s) - Len(sub) + 1) : SubSeq(s, i, i + Len(sub) - 1) = sub

StartsWith(s, pre) == IsPrefix(pre, s)

Live(c) == sock[c] \in {"open", "stalled", "halfclosed", "closed"}

\* The step in which the running handler reads, resolves and answers.
Handled == mpc = "handle" /\ mpc' # "handle" /\ request' # ReadError

\* A normal response has been written in full and the handler returns Ok.
NormalDone == mpc = "end" /\ result = "ok"

\* -------------------------------------------------------------------- C1
\* C1: during a broadcast every live connection has received at most one
\* update frame since the lock was taken, a connection that was not in the
\* Vec when the lock was taken has received none, the elements already
\* visited and kept have received exactly one, and when retain_mut is done
\* (the lock still held) every element left was in the Vec at lock time and
\* has received exactly one.
C1_OneFramePerBroadcast ==
    wpc = "retain" =>
        /\ \A c \in Conns : Live(c) => Updates(c) \in {base[c], base[c] + 1}
        /\ \A c \in Conns : Live(c) /\ c \notin Range(snap) => Updates(c) = base[c]
        /\ \A i \in 1..Len(update_notify) :
              /\ update_notify[i] \in Range(snap)
              /\ Updates(update_notify[i]) = base[update_notify[i]] + (IF i < bi THEN 1 ELSE 0)

\* A broadcast has visited every element, kept one, and a connection that
\* asked to subscribe meanwhile waits for the lock.
C1_Witness ==
    /\ wpc = "retain"
    /\ bi > Len(update_notify)
    /\ Len(update_notify) >= 1
    /\ mpc = "lock"
    /\ cur \notin Range(snap)

\* -------------------------------------------------------------------- C3
\* C3: whenever the watcher does not hold the lock, no connection of the Vec
\* has had a write seen to fail; and the element a broadcast is about to
\* write to has never had one.
C3_NoFailedSubscriber ==
    /\ lock # "watcher" => \A c \in Range(update_notify) : c \notin werr
    /\ (wpc = "retain" /\ bi <= Len(update_notify)) => update_notify[bi] \notin werr

\* A second broadcast has pruned a connection whose write failed and kept
\* another.
C3_Witness ==
    /\ wpc = "retain"
    /\ bi > Len(update_notify)
    /\ \E c \in Range(update_notify) : Updates(c) >= 2
    /\ \E c \in Range(snap) : c \notin Range(update_notify) /\ sock[c] = "dropped"
    /\ Len(update_notify) >= 1

\* -------------------------------------------------------------------- C4
SentinelFileReadable(files) ==
    \/ CanRead(Join(RootPath, VERY_LONG_PATH), files)
    \/ CanRead(Join(Join(RootPath, VERY_LONG_PATH), IndexHtml), files)

\* C4 as stated: whatever the served root holds, a handler that parsed the
\* sentinel path is in the subscription branch: its connection carries no
\* Content-Length response but the event-stream header and the initial
\* frame, is open, and is in the Vec when the handler returns.
C4_SentinelAlwaysSubscribes ==
    (mpc \in {"end", "ret"} /\ request # ReadError /\ ParsePath(request) = VERY_LONG_PATH) =>
        /\ ~HasHeader(out[cur], "Content-Length: ")
        /\ out[cur] = SSE_HEADER \o <<DATA_INITIAL>>
        /\ mpc = "ret"
        /\ cur \in Range(update_notify)

\* C4 amended: a request for the sentinel path handled while neither
\* root/sentinel nor root/sentinel/index.html is readable never gets a
\* Content-Length response; when set_nodelay and both writes succeed the
\* connection has received the event-stream header and then the initial
\* frame and the handler goes on to insert it, otherwise the handler returns
\* Err having written at most the header; and at the handler's return the
\* connection is in the Vec with those bytes first, unless a broadcast's
\* write to it has failed meanwhile and dropped it.
C4_SentinelSubscribesUnlessFile ==
    /\ [][(Handled /\ ParsePath(request') = VERY_LONG_PATH /\ ~SentinelFileReadable(fs)) =>
            /\ ~HasHeader(out'[cur], "Content-Length: ")
            /\ \/ mpc' = "lock" /\ out'[cur] = SSE_HEADER \o <<DATA_INITIAL>> /\ Live(cur)'
               \/ mpc' = "end" /\ result' = "err" /\ out'[cur] \in {<<>>, SSE_HEADER}]_vars
    /\ [](mpc = "ret" =>
            \/ /\ cur \in Range(update_notify)
               /\ Live(cur)
               /\ StartsWith(out[cur], SSE_HEADER \o <<DATA_INITIAL>>)
               /\ ~HasHeader(out[cur], "Content-Length: ")
            \/ /\ cur \notin Range(update_notify)
               /\ sock[cur] = "dropped")

\* A sentinel request was answered as a subscription and the handler is
\* about to return with the connection in the Vec.
C4_Witness ==
    /\ mpc = "ret"
    /\ ParsePath(request) = VERY_LONG_PATH
    /\ cur \in Range(update_notify)
    /\ out[cur] = SSE_HEADER \o <<DATA_INITIAL>>

\* -------------------------------------------------------------------- C5
\* C5: when a normal response has been written in full, the bytes after the
\* blank line are the resolved body followed by the reload snippet exactly
\* when the Content-Type written is text/html, and by nothing otherwise.
C5_SnippetOnlyForHtml ==
    [][(Handled /\ mpc' = "end" /\ result' = "ok") =>
          AfterHeaders(out'[cur]) =
              Resolve(ParsePath(request'), fs).content
                \o (IF HeaderValue(out'[cur], "Content-Type: ") = <<TEXT_HTML>>
                    THEN UPDATE_NOTIFY_SCRIPT ELSE <<>>)]_vars

\* -------------------------------------------------------------------- C6
\* C6: when a normal response has been written in full, the number in its
\* Content-Length header is the number of bytes written after the blank line.
C6_ContentLengthMatchesBytes ==
    NormalDone =>
        /\ HasHeader(out[cur], "Content-Length: ")
        /\ ParseInt(HeaderValue(out[cur], "Content-Length: ")) = Len(AfterHeaders(out[cur]))

\* -------------------------------------------------------------------- C7
Unresolvable(p, files) ==
    /\ p # VERY_LONG_PATH
    /\ ~CanRead(Join(RootPath, p), files)
    /\ ~CanRead(Join(Join(RootPath, p), IndexHtml), files)

\* C7: a request whose path is not the sentinel and names neither a readable
\* file nor a directory with a readable index.html is answered with status
\* 404 and Content-Type text/html, the complete response has a body that
\* contains the path, and the handler returns Err only when a write to the
\* connection failed.
C7_MissingFileGives404 ==
    [][(Handled /\ Unresolvable(ParsePath(request'), fs)) =>
          /\ mpc' = "end"
          /\ out'[cur] # <<>> =>
                /\ StatusOf(out'[cur]) = STATUS_NOT_FOUND
                /\ HeaderValue(out'[cur], "Content-Type: ") = <<TEXT_HTML>>
          /\ result' = "ok" =>
                /\ out'[cur] # <<>>
                /\ Contains(AfterHeaders(out'[cur]), ParsePath(request'))
          /\ result' = "err" => cur \in werr']_vars

\* A complete 404 page for a path that names nothing.
C7_Witness ==
    /\ NormalDone
    /\ Unresolvable(ParsePath(request), fs)
    /\ StatusOf(out[cur]) = STATUS_NOT_FOUND
    /\ Contains(AfterHeaders(out[cur]), ParsePath(request))

\* -------------------------------------------------------------------- C8
\* The answer the stated resolution order asks for, read off the bytes.
AnswersFile(o, f, mime, complete) ==
    /\ StatusOf(o) = STATUS_OK
    /\ HeaderValue(o, "Content-Type: ") = (IF mime = None THEN <<>> ELSE <<mime>>)
    /\ complete => StartsWith(AfterHeaders(o), FileContent(f))

\* C8: the handler answers by the first rule that applies: the file
\* root/path with the MIME table's type for the path's extension; else the
\* file root/path/index.html with text/html; else, for the sentinel path, the
\* subscription branch; else 404.
C8_ResolutionOrder ==
    [][Handled =>
          LET p  == ParsePath(request')
              p1 == Join(RootPath, p)
              p2 == Join(p1, IndexHtml)
              o  == out'[cur] IN
          IF CanRead(p1, fs)
          THEN mpc' = "end" /\ (o # <<>> => AnswersFile(o, ReadTarget(p1, fs), get_mime_type(p), result' = "ok"))
          ELSE IF CanRead(p2, fs)
          THEN mpc' = "end" /\ (o # <<>> => AnswersFile(o, ReadTarget(p2, fs), TEXT_HTML, result' = "ok"))
          ELSE IF p = VERY_LONG_PATH
          THEN /\ ~HasHeader(o, "Content-Length: ")
               /\ IsPrefix(o, SSE_HEADER \o <<DATA_INITIAL>>)
               /\ mpc' = "lock" <=> o = SSE_HEADER \o <<DATA_INITIAL>>
          ELSE mpc' = "end" /\ (o # <<>> => StatusOf(o) = STATUS_NOT_FOUND)]_vars

\* A request for the directory d has been answered with d/index.html as
\* text/html.
C8_Witness ==
    /\ NormalDone
    /\ request = ReqDir
    /\ FileIndex \in fs
    /\ StatusOf(out[cur]) = STATUS_OK
    /\ HeaderValue(out[cur], "Content-Type: ") = <<TEXT_HTML>>
    /\ StartsWith(AfterHeaders(out[cur]), FileContent(FileIndex))

\* -------------------------------------------------------------------- C9
\* C9: no failure on a connection ends the accept loop: serve never returns.
C9_LoopSurvivesConnectionFailure == mpc # "exited"

\* ------------------------------------------------------------------- C10
\* C10: every broadcast that has taken the lock eventually releases it.
C10_BroadcastFinishes == (wpc = "retain") ~> (wpc = "idle")

\* ------------------------------------------------------------------- C11
\* C11: while a handler is blocked, waiting for its request line or for the
\* registry lock, the server loop can accept the next connection.
C11_AcceptsWhileHandlerBlocked ==
    (mpc \in {"handle", "lock"} /\ nconn < MaxConns) => ENABLED Accept

\* ------------------------------------------------------------------- C12
\* One call of the retain_mut closure, seen as a step.
RetainVisit ==
    /\ wpc = "retain"
    /\ wpc' = "retain"
    /\ bi <= Len(update_notify)
    /\ (bi' # bi \/ update_notify' # update_notify)

\* C12 as stated: the broadcast that visits a subscriber whose client has
\* closed its connection removes that subscriber from the Vec.
C12_ClosedRemovedByNextBroadcast ==
    [][(RetainVisit /\ sock[update_notify[bi]] \in {"halfclosed", "closed"})
          => update_notify[bi] \notin Range(update_notify')]_vars

\* C12 amended: a subscriber is removed by the first broadcast whose write
\* to it fails, which need not be the first broadcast after the client closed
\* (the write that follows an orderly close succeeds); a visit whose write
\* succeeds appends exactly one update frame and keeps the element; and no
\* visit touches another element or its bytes.
C12_FailedWriteRemoves ==
    [][RetainVisit =>
          LET s == update_notify[bi] IN
          /\ sock[s] = "closed" =>
                /\ update_notify' = RemoveAt(update_notify, bi)
                /\ sock'[s] = "dropped"
          /\ sock[s] \in {"open", "halfclosed"} =>
                /\ update_notify' = update_notify
                /\ out'[s] = Append(out[s], DATA_UPDATE)
          /\ \A c \in Range(update_notify) \ {s} :
                c \in Range(update_notify') /\ out'[c] = out[c]]_vars

\* A broadcast is done: it has dropped one subscriber, whose write failed,
\* and kept another whose client had closed in an orderly way before the
\* write, which went through.
C12_Witness ==
    /\ wpc = "retain"
    /\ bi > Len(update_notify)
    /\ \E c \in Range(snap) : c \notin Range(update_notify) /\ sock[c] = "dropped"
    /\ \E d \in Range(update_notify) : sock[d] = "closed" /\ Updates(d) = base[d] + 1

\* ------------------------------------------------------------------- C13
\* C13: while the server runs, a connection leaves the Vec only in a call of
\* the retain_mut closure on that very connection, under the watcher's lock,
\* with a write that fails; whatever else happens (requests, subscriptions,
\* visits of other elements, watcher errors) every element stays, and no
\* element of the Vec is a dropped stream.
C13_RemovedOnlyByFailedWrite ==
    [][mpc' # "exited" =>
          /\ \A c \in Range(update_notify) :
                c \notin Range(update_notify') =>
                    /\ wpc = "retain"
                    /\ lock = "watcher"
                    /\ bi <= Len(update_notify)
                    /\ update_notify[bi] = c
                    /\ sock[c] = "closed"
          /\ \A c \in Range(update_notify') : sock'[c] # "dropped"]_vars

\* A subscriber is still in the Vec after two broadcasts, a later
\* subscription and a watcher error.
C13_Witness ==
    /\ Len(update_notify) = 2
    /\ Updates(update_notify[1]) >= 2
    /\ Updates(update_notify[2]) = 1
    /\ log = LOG_WATCH_ERR
    /\ wpc = "idle"

\* ------------------------------------------------------------------- C14
\* The MIME table's value for the extension of a file's own name, None when
\* the name has no extension or the table does not list it.
FileMime(f) ==
    LET name == f[Len(f)]
        dot  == LastIndexOf(name, ".") IN
    IF dot > 1 /\ Len(name) = dot + 1 THEN MimeTable(name[dot + 1]) ELSE None

\* The file a 200 answer is read from: root/path, else root/path/index.html.
ServedFile(p, files) ==
    IF CanRead(Join(RootPath, p), files)
    THEN ReadTarget(Join(RootPath, p), files)
    ELSE ReadTarget(Join(Join(RootPath, p), IndexHtml), files)

\* C14: the response to a request that is served from a file has status 200;
\* its header block has a Content-Type with the MIME table's value for the
\* extension of that file's name when the table lists it and no Content-Type
\* at all otherwise, and has Content-Length and Cache-Control: no-cache
\* either way.
C14_ContentTypeFromTable ==
    [][(Handled /\ ServedFile(ParsePath(request'), fs) \in fs /\ out'[cur] # <<>>) =>
          LET o == out'[cur]
              f == ServedFile(ParsePath(request'), fs) IN
          /\ StatusOf(o) = STATUS_OK
          /\ IF FileMime(f) = None
             THEN ~HasHeader(o, "Content-Type: ")
             ELSE HeaderValue(o, "Content-Type: ") = <<FileMime(f)>>
          /\ HasHeader(o, "Content-Length: ")
          /\ HasHeader(o, "Cache-Control: no-cache")]_vars

\* A file whose name has no listed extension has been served in full: the
\* 200 response has Content-Length and Cache-Control and no Content-Type.
C14_Witness ==
    /\ NormalDone
    /\ StatusOf(out[cur]) = STATUS_OK
    /\ HasHeader(out[cur], "Content-Length: ")
    /\ HasHeader(out[cur], "Cache-Control: no-cache")
    /\ ~HasHeader(out[cur], "Content-Type: ")

\* ------------------------------------------------------------------- C15
\* C15: the handler is at its push exactly when it holds the lock and the
\* watcher is in retain_mut exactly when it holds it, so the two are never
\* there together; during a broadcast the Vec holds only elements it had
\* when the lock was taken, in the same order, the elements not yet visited
\* are the tail of that Vec, every element that has left it was dropped by
\* the broadcast, and a handler waiting to insert has not inserted.
C15_RegistryOpsExclusive ==
    /\ (mpc = "push") <=> (lock = "handler")
    /\ (wpc = "retain") <=> (lock = "watcher")
    /\ ~(mpc = "push" /\ wpc = "retain")
    /\ wpc = "retain" =>
          LET rest == Len(update_notify) - bi + 1 IN
          /\ Range(update_notify) \subseteq Range(snap)
          /\ rest <= Len(snap)
          /\ SubSeq(update_notify, bi, Len(update_notify))
                = SubSeq(snap, Len(snap) - rest + 1, Len(snap))
          /\ \A c \in Range(snap) \ Range(update_notify) : sock[c] = "dropped"
          /\ mpc = "lock" => cur \notin Range(update_notify)

\* A broadcast holds the lock with an element still to visit while a handler
\* that has written its initial frame waits for the lock to insert.
C15_Witness ==
    /\ wpc = "retain"
    /\ lock = "watcher"
    /\ bi = 1
    /\ Len(update_notify) = 1
    /\ mpc = "lock"
    /\ sock[cur] = "open"

\* ------------------------------------------------------------------- C16
\* The bytes of a subscriber connection: the event-stream header, one
\* initial frame, then update frames only.
IsSubscriberStream(o) ==
    /\ Len(o) > Len(SSE_HEADER)
    /\ SubSeq(o, 1, Len(SSE_HEADER)) = SSE_HEADER
    /\ o[Len(SSE_HEADER) + 1] = DATA_INITIAL
    /\ \A i \in (Len(SSE_HEADER) + 2)..Len(o) : o[i] = DATA_UPDATE

\* C16: every connection of the Vec, and the connection of a handler that is
\* about to insert, carries the event-stream header, then exactly one
\* initial frame, then update frames only; a handler that is about to insert
\* has written exactly the header and the initial frame; and the bytes of a
\* connection that is and stays in the Vec change only by one update frame
\* appended by the retain_mut closure visiting it under the watcher's lock,
\* in a step that is not a step of the handler.
C16_SubscriberFrameOrder ==
    /\ [](/\ \A c \in Range(update_notify) : IsSubscriberStream(out[c])
          /\ mpc \in {"lock", "push"} =>
                /\ out[cur] = SSE_HEADER \o <<DATA_INITIAL>>
                /\ cur \notin Range(update_notify))
    /\ [][\A c \in Range(update_notify) \cap Range(update_notify') :
            out'[c] # out[c] =>
                /\ wpc = "retain"
                /\ lock = "watcher"
                /\ update_notify[bi] = c
                /\ out'[c] = Append(out[c], DATA_UPDATE)
                /\ UNCHANGED mainVars]_vars

\* A subscriber whose handler has returned has received the header, the
\* initial frame and then two update frames.
C16_Witness ==
    /\ wpc = "idle"
    /\ \E c \in Range(update_notify) :
          /\ c # cur
          /\ out[c] = SSE_HEADER \o <<DATA_INITIAL, DATA_UPDATE, DATA_UPDATE>>

\* ------------------------------------------------------------------- C17
\* C17: the mutex is never poisoned, and neither thread has panicked in
\* lock().expect(RW_ERR) or in the closure: every acquisition of the lock
\* returns the guard.
C17_LockNeverPoisoned ==
    /\ ~poisoned
    /\ mpc # "panicked"
    /\ wpc # "panicked"

\* A write failed inside a broadcast: the element was dropped, the broadcast
\* went on to the next element, wrote its frame and kept it, and the mutex
\* is not poisoned.
C17_Witness ==
    /\ wpc = "retain"
    /\ lock = "watcher"
    /\ Len(snap) = 2
    /\ update_notify = <<snap[2]>>
    /\ sock[snap[1]] = "dropped"
    /\ bi = 2
    /\ Updates(snap[2]) = base[snap[2]] + 1
    /\ ~poisoned

\* ------------------------------------------------------------------- C18
\* C18: the step that prints a watcher error changes nothing else: no bytes
\* of any connection, not the Vec, not the lock, no socket, and neither the
\* watcher's position (it does not go for the lock) nor the main thread's
\* (the loop and a running handler are where they were, and go on).
C18_WatcherErrorOnlyReported ==
    [][(log' = LOG_WATCH_ERR /\ log # LOG_WATCH_ERR) =>
          /\ UNCHANGED <<out, update_notify, lock, sock, werr, pending, fs>>
          /\ UNCHANGED watchVars
          /\ UNCHANGED mainVars]_vars

\* The last line printed is a watcher error; a subscriber that has received
\* no update frame is in the Vec, nobody holds the lock, and a static
\* request has been answered in full with 200.
C18_Witness ==
    /\ log = LOG_WATCH_ERR
    /\ wpc = "idle"
    /\ lock = "free"
    /\ \E c \in Range(update_notify) : Updates(c) = 0 /\ sock[c] = "open"
    /\ NormalDone
    /\ StatusOf(out[cur]) = STATUS_OK

\* ------------------------------------------------------------------- C19
\* C19: a handler in the subscription branch whose set_nodelay, header
\* write, initial-frame write or flush fails returns Err with the Vec as it
\* was and its connection not in it; a handler of any other request returns
\* with the Vec as it was; and no step of the main thread while serve runs
\* changes the Vec except the push, which appends the handler's own
\* connection after the header and the initial frame were written.
C19_RegistryFrame ==
    [][/\ (Handled /\ Resolve(ParsePath(request'), fs).branch = "subscribe"
              /\ out'[cur] # SSE_HEADER \o <<DATA_INITIAL>>) =>
            /\ mpc' = "end"
            /\ result' = "err"
            /\ update_notify' = update_notify
            /\ cur \notin Range(update_notify')
       /\ (Handled /\ Resolve(ParsePath(request'), fs).branch = "normal") =>
            /\ mpc' = "end"
            /\ update_notify' = update_notify
            /\ cur \notin Range(update_notify')
       /\ (mainVars' # mainVars /\ mpc' # "exited" /\ update_notify' # update_notify) =>
            /\ mpc = "push"
            /\ update_notify' = Append(update_notify, cur)
            /\ out[cur] = SSE_HEADER \o <<DATA_INITIAL>>]_vars

\* A subscription failed after the header was written: the handler returns
\* Err, its connection is not in the Vec, and the Vec still holds an earlier
\* subscriber.
C19_Witness ==
    /\ mpc = "end"
    /\ result = "err"
    /\ request # ReadError
    /\ ParsePath(request) = VERY_LONG_PATH
    /\ out[cur] = SSE_HEADER
    /\ update_notify # <<>>
    /\ cur \notin Range(update_notify)

\* ------------------------------------------------------------------- C20
\* C20: a complete 200 response carries the content of a file that lies in
\* the directory tree of the served root.
C20_ServedFileInsideRoot ==
    [][(Handled /\ mpc' = "end" /\ result' = "ok" /\ StatusOf(out'[cur]) = STATUS_OK) =>
          LET f == ServedFile(ParsePath(request'), fs) IN
          /\ f \in fs
          /\ IsPrefix(RootComps, f)
          /\ StartsWith(AfterHeaders(out'[cur]), FileContent(f))]_vars


====
